---------------------------- MODULE Spec2Model ----------------------------
(***************************************************************************)
(* Model of src/app.py: the time-to-hire bracket distribution, the         *)
(* month-name kernel table, the spend aggregation and the CAC loop.        *)
(*                                                                         *)
(* The script runs top to bottom once per session state.  Init is the      *)
(* state after the three tables are loaded and the sidebar widgets are     *)
(* read (lines 1-58); every later block of the script is one action.      *)
(*                                                                         *)
(* The three loaded tables are the inputs.  Their columns may hold what    *)
(* the script guards against: a null hire date, null segment attributes,   *)
(* a null spend or hire month (l.176 dropna), a hire count of 0 (l.185),   *)
(* dates inside a month (l.107, l.138 truncate) and several rows of one    *)
(* month.  The main table has at least one row: the sidebar widgets take   *)
(* their options and their range from it.                                  *)
(*                                                                         *)
(* Timestamps are triples <<year, month, day>>; NaT is the null timestamp. *)
(* Spend amounts are whole AED.                                            *)
(* Fractions are exact rationals [num, den] in lowest terms: the binary    *)
(* floating-point rounding of pandas/Python is outside this model.         *)
(***************************************************************************)
EXTENDS Integers, Sequences, FiniteSets, TLC

VARIABLES
    df,                    \* main table after load_main_data (l.40)
    spend_raw,             \* result of load_spend_data (l.106)
    hire_raw,              \* result of load_hire_data (l.132)
    nationality,           \* sidebar selectbox (l.48)
    location,              \* sidebar selectbox (l.49)
    selected_month_range,  \* sidebar slider (l.54)
    num_months,            \* sidebar slider (l.55)
    countries,             \* sidebar multiselect (l.58)
    filtered_df,           \* l.60
    month_wise_brackets,   \* l.85
    spend_df,              \* l.108-113
    hire_df,               \* l.133-138
    overall,               \* value of compute_time_to_hire(filtered_df, num_months) at l.147
    summary,               \* 'Percentage of Total Hires' column of tab1 (l.147)
    percentages,           \* per month-name slice shown by tab2 (l.161)
    drilldown,             \* 'Percentage of Total Hires' columns of tab2 (l.164)
    cac_rows,              \* l.174
    pc                     \* position in the script

vars == <<df, spend_raw, hire_raw, nationality, location, selected_month_range,
          num_months, countries, filtered_df, month_wise_brackets, spend_df,
          hire_df, overall, summary, percentages, drilldown, cac_rows, pc>>

-----------------------------------------------------------------------------
(* Values                                                                  *)

\* the null timestamp
NaT == <<0, 0, 0>>
\* a null segment attribute
None == "None"
\* cac = None (l.185): no quotient
NoCac == [num |-> 0, den |-> 0]
\* the cell 'N/A' (l.190); a numeric cell is <<"AED", hundredths>>
NA == <<"N/A", 0>>

\* Series.notna() on a timestamp column
notna(x) == x # NaT

\* Series.dt.to_period("M").dt.to_timestamp(): first day of the month
MonthStart(t) == IF t = NaT THEN NaT ELSE <<t[1], t[2], 1>>

\* Timestamp ordering (>=, <, sorted): a day ordinal that preserves it
Ord(t) == (t[1] * 12 + (t[2] - 1)) * 31 + (t[3] - 1)

\* ts + pd.DateOffset(months=k); the script applies it to month starts only,
\* where the day of the month needs no clamping
DateOffsetMonths(t, k) ==
    LET idx == t[1] * 12 + (t[2] - 1) + k
    IN  <<idx \div 12, (idx % 12) + 1, t[3]>>

month_lookup == <<"Jan", "Feb", "Mar", "Apr", "May", "Jun",
                  "Jul", "Aug", "Sep", "Oct", "Nov", "Dec">>

\* strftime("%b")
StrfB(t) == month_lookup[t[2]]

\* strftime('%Y-%m')
StrfYm(t) == <<t[1], t[2]>>

-----------------------------------------------------------------------------
(* Exact rationals                                                         *)

RECURSIVE Gcd(_, _)
Gcd(a, b) == IF b = 0 THEN a ELSE Gcd(b, a % b)

Abs(x) == IF x < 0 THEN -x ELSE x

Rat(n, d) ==
    LET g == Gcd(Abs(n), d)
    IN  [num |-> n \div g, den |-> d \div g]

Zero == [num |-> 0, den |-> 1]

RatAdd(p, q) == Rat(p.num * q.den + q.num * p.den, p.den * q.den)
RatMulInt(k, q) == Rat(k * q.num, q.den)
RatDivInt(q, k) == Rat(q.num, q.den * k)
RatLE(p, q) == p.num * q.den <= q.num * p.den

\* round-half-even of q * scale to an integer
RoundScaled(q, scale) ==
    LET x == q.num * scale
        f == x \div q.den
        r == x % q.den
    IN  IF 2 * r < q.den THEN f
        ELSE IF 2 * r > q.den THEN f + 1
        ELSE IF f % 2 = 0 THEN f ELSE f + 1

\* round(x, 2), in hundredths
Round2(q) == RoundScaled(q, 100)

\* f"{p * 100:.1f}%", in tenths of a percent
FormatPct(p) == RoundScaled(p, 1000)

-----------------------------------------------------------------------------
(* Sequence helpers standing for pandas primitives                         *)

Range(s) == {s[i] : i \in 1..Len(s)}

RECURSIVE SumSeq(_)
SumSeq(s) == IF s = <<>> THEN 0 ELSE Head(s) + SumSeq(Tail(s))

\* sorted(...) of a set of timestamps
RECURSIVE SortedTs(_)
SortedTs(S) ==
    IF S = {} THEN <<>>
    ELSE LET m == CHOOSE x \in S : \A y \in S : Ord(x) <= Ord(y)
         IN  <<m>> \o SortedTs(S \ {m})

-----------------------------------------------------------------------------
(* Derived columns of df (l.41-44)                                         *)

app_month(r) == MonthStart(r.application_date)
month_name(r) == StrfB(r.application_date)

-----------------------------------------------------------------------------
(* compute_time_to_hire (l.69-81)                                          *)

\* l.70: df[df['successful_date'].notna()]
hired_rows(d) == SelectSeq(d, LAMBDA r : notna(r.successful_date))

\* l.73: total_hires = len(df)
total_hires_of(d) == Len(hired_rows(d))

\* l.75: the keys of df.groupby('application_month'), in sorted order
cohort_months(d) ==
    LET h == hired_rows(d)
    IN  SortedTs({MonthStart(h[i].application_date) : i \in 1..Len(h)})

\* mutant: the window closed at its end, [start, end]
window_count_closed(d, cohort_month, offset) ==
    LET h == hired_rows(d)
        start == DateOffsetMonths(cohort_month, offset)
        end == DateOffsetMonths(cohort_month, offset + 1)
    IN  Cardinality({i \in 1..Len(h) :
            /\ MonthStart(h[i].application_date) = cohort_month
            /\ Ord(MonthStart(h[i].successful_date)) >= Ord(start)
            /\ Ord(MonthStart(h[i].successful_date)) <= Ord(end)})

\* mutant: the window measured from the application date, not its month
window_count_from_date(d, cohort_month, offset) ==
    LET h == hired_rows(d)
    IN  Cardinality({i \in 1..Len(h) :
            /\ MonthStart(h[i].application_date) = cohort_month
            /\ Ord(MonthStart(h[i].successful_date)) >=
                  Ord(DateOffsetMonths(h[i].application_date, offset))
            /\ Ord(MonthStart(h[i].successful_date)) <
                  Ord(DateOffsetMonths(h[i].application_date, offset + 1))})

\* l.77-79: rows of the cohort's group whose hire month lies in
\* [cohort_month + offset months, cohort_month + offset + 1 months)
window_count(d, cohort_month, offset) ==
    LET h == hired_rows(d)
        start == DateOffsetMonths(cohort_month, offset)
        end == DateOffsetMonths(cohort_month, offset + 1)
    IN  Cardinality({i \in 1..Len(h) :
            /\ MonthStart(h[i].application_date) = cohort_month
            /\ Ord(MonthStart(h[i].successful_date)) >= Ord(start)
            /\ Ord(MonthStart(h[i].successful_date)) < Ord(end)})

\* l.74-80: bracket_counts[offset], accumulated over the cohorts
bracket_count(d, offset) ==
    LET c == cohort_months(d)
    IN  SumSeq([g \in 1..Len(c) |-> window_count(d, c[g], offset)])

\* mutant: the counts returned without the division by total_hires
compute_time_to_hire_counts(d, n) ==
    [k \in 1..n |->
        IF total_hires_of(d) > 0 THEN Rat(bracket_count(d, k - 1), 1) ELSE Zero]

\* mutant: the fractions returned as percentages
compute_time_to_hire_percent(d, n) ==
    [k \in 1..n |->
        IF total_hires_of(d) > 0
        THEN Rat(100 * bracket_count(d, k - 1), total_hires_of(d))
        ELSE Zero]

\* mutant: the denominator counts only the hires inside the horizon
compute_time_to_hire_normalised(d, n) ==
    LET inside == SumSeq([k \in 1..n |-> bracket_count(d, k - 1)])
    IN  [k \in 1..n |->
            IF inside > 0 THEN Rat(bracket_count(d, k - 1), inside) ELSE Zero]

\* l.69-81; the list is 1-based here: entry k holds offset k - 1
compute_time_to_hire(d, n) ==
    [k \in 1..n |->
        IF total_hires_of(d) > 0
        THEN Rat(bracket_count(d, k - 1), total_hires_of(d))
        ELSE Zero]

-----------------------------------------------------------------------------
(* The blocks of the script as functions of the tables and the widgets     *)

\* l.60-66
filter_main(d, nat, loc, ctrs, range) ==
    SelectSeq(d, LAMBDA r :
        /\ r.nationality_category = nat
        /\ r.location_category = loc
        /\ r.country \in ctrs
        /\ Ord(app_month(r)) >= Ord(range[1])
        /\ Ord(app_month(r)) <= Ord(range[2]))

\* mutant: the rows of the month-name in the year of its first row only
month_data_one_year(fd, month) ==
    LET named == SelectSeq(fd, LAMBDA r : month_name(r) = month)
    IN  SelectSeq(named, LAMBDA r : r.application_date[1] = named[1].application_date[1])

\* l.87: filtered_df[filtered_df['month_name'] == month]
month_data(fd, month) == SelectSeq(fd, LAMBDA r : month_name(r) = month)

\* l.85-88
build_month_wise_brackets(fd) ==
    [month \in Range(month_lookup) |->
        IF month_data(fd, month) # <<>>
        THEN compute_time_to_hire(month_data(fd, month), 12)
        ELSE [k \in 1..12 |-> Zero]]

\* mutant: the country selection not applied to the spend rows
filter_spend_any_country(s, nat, loc, ctrs) ==
    LET t == [i \in 1..Len(s) |-> [s[i] EXCEPT !.spend_month = MonthStart(@)]]
    IN  SelectSeq(t, LAMBDA r :
            /\ r.nationality_category = nat
            /\ r.location_category = loc)

\* l.107-112: truncate spend_month, keep the rows of the selected segment
filter_spend(s, nat, loc, ctrs) ==
    LET t == [i \in 1..Len(s) |-> [s[i] EXCEPT !.spend_month = MonthStart(@)]]
    IN  SelectSeq(t, LAMBDA r :
            /\ r.nationality_category = nat
            /\ r.location_category = loc
            /\ r.country_name \in ctrs)

\* l.113: groupby('spend_month', as_index=False)['monthly_spend'].sum();
\* one row per non-null key, keys in sorted order
group_spend(t) ==
    LET keys == SortedTs({t[i].spend_month : i \in 1..Len(t)} \ {NaT})
    IN  [g \in 1..Len(keys) |->
            [spend_month |-> keys[g],
             monthly_spend |->
                SumSeq([i \in 1..Len(t) |->
                    IF t[i].spend_month = keys[g] THEN t[i].monthly_spend ELSE 0])]]

\* l.106-113
build_spend_df(s, nat, loc, ctrs) == group_spend(filter_spend(s, nat, loc, ctrs))

\* l.133-138: keep the rows of the selected segment, truncate hire_month
build_hire_df(h, nat, loc, ctrs) ==
    LET kept == SelectSeq(h, LAMBDA r :
                    /\ r.country \in ctrs
                    /\ r.location_category = loc
                    /\ r.nationality_category = nat)
    IN  [i \in 1..Len(kept) |-> [kept[i] EXCEPT !.hire_month = MonthStart(@)]]

\* unique(): the distinct values in order of first appearance
RECURSIVE UniqueSeq(_)
UniqueSeq(s) ==
    IF s = <<>> THEN <<>>
    ELSE LET front == UniqueSeq(SubSeq(s, 1, Len(s) - 1))
         IN  IF s[Len(s)] \in Range(front) THEN front ELSE Append(front, s[Len(s)])

\* mutant: the hire months in order of first appearance, not sorted
hire_months_unsorted(hd) ==
    UniqueSeq(SelectSeq([i \in 1..Len(hd) |-> hd[i].hire_month], LAMBDA m : m # NaT))

\* l.176: sorted(hire_df['hire_month'].dropna().unique())
hire_months(hd) == SortedTs({hd[i].hire_month : i \in 1..Len(hd)} \ {NaT})

\* l.177: int(hire_df[hire_df['hire_month'] == hire_month]['hires'].sum())
hires_in(hd, hire_month) ==
    SumSeq([i \in 1..Len(hd) |->
        IF hd[i].hire_month = hire_month THEN hd[i].hires ELSE 0])

\* mutant: the lookback running forward from the hire month
spend_month_at_forward(hire_month, i) == MonthStart(DateOffsetMonths(hire_month, i))

\* l.180: (hire_month - pd.DateOffset(months=i)).to_period('M').to_timestamp()
spend_month_at(hire_month, i) == MonthStart(DateOffsetMonths(hire_month, -i))

\* l.181: spend_df[spend_df['spend_month'] == spend_month]['monthly_spend'].sum()
spend_at(sd, spend_month) ==
    SumSeq([i \in 1..Len(sd) |->
        IF sd[i].spend_month = spend_month THEN sd[i].monthly_spend ELSE 0])

\* l.182-183: month_wise_brackets.get(month_name, [0]*12)[i]
weight_at(kernel, spend_month, i) ==
    IF StrfB(spend_month) \in DOMAIN kernel
    THEN kernel[StrfB(spend_month)][i + 1]
    ELSE Zero

\* l.178-184: weighted_spend after the iterations i = 0 .. n - 1
RECURSIVE weighted_spend_upto(_, _, _, _)
weighted_spend_upto(sd, kernel, hire_month, n) ==
    IF n = 0 THEN Zero
    ELSE RatAdd(weighted_spend_upto(sd, kernel, hire_month, n - 1),
                RatMulInt(spend_at(sd, spend_month_at(hire_month, n - 1)),
                          weight_at(kernel, spend_month_at(hire_month, n - 1), n - 1)))

\* l.179: for i in range(12)
weighted_spend_of(sd, kernel, hire_month) ==
    weighted_spend_upto(sd, kernel, hire_month, 12)

\* mutant: a zero-hire month reported with a CAC of 0
cac_of_zero(weighted_spend, hires) ==
    IF hires > 0 THEN RatDivInt(weighted_spend, hires) ELSE Zero

\* l.185: cac = (weighted_spend / hires) if hires > 0 else None
cac_of(weighted_spend, hires) ==
    IF hires > 0 THEN RatDivInt(weighted_spend, hires) ELSE NoCac

\* l.177-191: one row of cac_rows.  weighted_spend and cac are the loop's
\* local values; the other four fields are the columns of the row
cac_row(hd, sd, kernel, hire_month) ==
    LET hires == hires_in(hd, hire_month)
        weighted_spend == weighted_spend_of(sd, kernel, hire_month)
        cac == cac_of(weighted_spend, hires)
    IN  [hire_month |-> hire_month,
         weighted_spend |-> weighted_spend,
         cac |-> cac,
         HireMonth |-> StrfYm(hire_month),
         TotalHires |-> hires,
         WeightedSpendAED |-> <<"AED", Round2(weighted_spend)>>,
         CACAEDperHire |-> IF cac # NoCac THEN <<"AED", Round2(cac)>> ELSE NA]

\* l.174-191
build_cac_rows(hd, sd, kernel) ==
    LET months == hire_months(hd)
    IN  [j \in 1..Len(months) |-> cac_row(hd, sd, kernel, months[j])]

\* l.147, l.164: [f"{p * 100:.1f}%" for p in ...]
format_column(ps) == [k \in 1..Len(ps) |-> FormatPct(ps[k])]

\* l.161: month_wise_brackets.get(m, [0.0] * 12)[:num_months]
slice_brackets(kernel, m, n) ==
    LET row == IF m \in DOMAIN kernel THEN kernel[m] ELSE [k \in 1..12 |-> Zero]
    IN  SubSeq(row, 1, n)

-----------------------------------------------------------------------------
(* The loaded tables and the sidebar (l.20-58)                             *)

MaxApps == 2
MaxSpendRows == 2
MaxHireRows == 2

\* slider "Months to Track After Application" (l.55)
MinHorizon == 1
MaxHorizon == 12
DefaultHorizon == 6

SeqsUpTo(S, lo, hi) == UNION {[1..n -> S] : n \in lo..hi}

AppRow(a, h, nat, loc, c) ==
    [application_date |-> a, successful_date |-> h,
     nationality_category |-> nat, location_category |-> loc, country |-> c]

SpendRow(m, c, nat, loc, amount) ==
    [spend_month |-> m, country_name |-> c, nationality_category |-> nat,
     location_category |-> loc, monthly_spend |-> amount]

HireRow(m, c, loc, nat, n) ==
    [hire_month |-> m, country |-> c, location_category |-> loc,
     nationality_category |-> nat, hires |-> n]

\* applications of one segment: never hired, hired before the application
\* month, hired 0, 1, 2, 11 and 12 months after it; two Januaries, and a
\* December whose windows run into the next year
BracketRecords ==
    { AppRow(<<2023, 1, 15>>, NaT, "NatA", "LocA", "AE"),
      AppRow(<<2023, 1, 15>>, <<2022, 12, 31>>, "NatA", "LocA", "AE"),
      AppRow(<<2023, 1, 15>>, <<2023, 1, 31>>, "NatA", "LocA", "AE"),
      AppRow(<<2023, 1, 15>>, <<2023, 12, 15>>, "NatA", "LocA", "AE"),
      AppRow(<<2023, 1, 15>>, <<2024, 1, 1>>, "NatA", "LocA", "AE"),
      AppRow(<<2023, 12, 1>>, <<2024, 1, 1>>, "NatA", "LocA", "AE"),
      AppRow(<<2023, 12, 1>>, <<2024, 2, 29>>, "NatA", "LocA", "AE"),
      AppRow(<<2024, 1, 31>>, <<2024, 2, 29>>, "NatA", "LocA", "AE") }

\* applications of several segments, one with a null country
SegmentRecords ==
    { AppRow(<<2023, 1, 15>>, <<2023, 2, 20>>, "NatA", "LocA", "AE"),
      AppRow(<<2023, 2, 10>>, <<2023, 2, 25>>, "NatA", "LocA", "LB"),
      AppRow(<<2023, 3, 5>>, NaT, "NatA", "LocA", "AE"),
      AppRow(<<2023, 1, 20>>, <<2023, 3, 1>>, "NatB", "LocA", "AE"),
      AppRow(<<2023, 2, 1>>, <<2023, 4, 1>>, "NatA", "LocB", "AE"),
      AppRow(<<2023, 1, 2>>, <<2023, 1, 30>>, "NatA", "LocA", None) }

\* a main table spanning several segments
SegmentTable ==
    << AppRow(<<2024, 1, 10>>, <<2024, 3, 5>>, "NatA", "LocA", "AE"),
       AppRow(<<2024, 2, 10>>, <<2024, 3, 1>>, "NatA", "LocA", "LB"),
       AppRow(<<2024, 1, 20>>, <<2024, 1, 25>>, "NatB", "LocB", "AE") >>

\* main tables of one segment whose kernels have weight at lags 0, 1, 2, 11;
\* one has a hire 12 months after the application, one a row never hired
KernelTables ==
    { << AppRow(<<2023, 1, 10>>, <<2023, 3, 5>>, "NatA", "LocA", "AE"),
         AppRow(<<2022, 1, 20>>, <<2022, 2, 1>>, "NatA", "LocA", "AE"),
         AppRow(<<2022, 2, 7>>, <<2022, 3, 7>>, "NatA", "LocA", "AE") >>,
      << AppRow(<<2023, 3, 1>>, <<2023, 3, 30>>, "NatA", "LocA", "AE"),
         AppRow(<<2022, 3, 10>>, <<2023, 3, 1>>, "NatA", "LocA", "AE"),
         AppRow(<<2022, 2, 7>>, <<2022, 3, 7>>, "NatA", "LocA", "AE") >>,
      << AppRow(<<2023, 4, 2>>, <<2024, 3, 15>>, "NatA", "LocA", "AE"),
         AppRow(<<2022, 4, 9>>, <<2022, 4, 30>>, "NatA", "LocA", "AE"),
         AppRow(<<2022, 4, 2>>, NaT, "NatA", "LocA", "AE") >> }

SpendRecords ==
    { SpendRow(<<2024, 1, 1>>, "AE", "NatA", "LocA", 100),
      SpendRow(<<2024, 1, 15>>, "LB", "NatA", "LocA", 40),
      SpendRow(<<2024, 1, 1>>, "AE", "NatB", "LocA", 7),
      SpendRow(<<2024, 2, 1>>, "AE", "NatA", "LocA", 30),
      SpendRow(<<2024, 2, 1>>, "AE", "NatB", "LocB", 9),
      SpendRow(<<2024, 3, 1>>, None, "NatA", "LocA", 5),
      SpendRow(NaT, "AE", "NatA", "LocA", 11) }

CacSpendRecords ==
    { SpendRow(<<2024, 1, 1>>, "AE", "NatA", "LocA", 100),
      SpendRow(<<2024, 2, 1>>, "AE", "NatA", "LocA", 200),
      SpendRow(<<2024, 3, 1>>, "AE", "NatA", "LocA", 300),
      SpendRow(<<2023, 4, 1>>, "AE", "NatA", "LocA", 120),
      SpendRow(<<2023, 3, 1>>, "AE", "NatA", "LocA", 70),
      SpendRow(<<2024, 4, 1>>, "AE", "NatA", "LocA", 40),
      SpendRow(<<2024, 2, 1>>, "AE", "NatA", "LocA", -30) }

HireRecords ==
    { HireRow(<<2024, 3, 1>>, "AE", "LocA", "NatA", 2),
      HireRow(<<2024, 3, 20>>, "LB", "LocA", "NatA", 3),
      HireRow(<<2024, 4, 1>>, "AE", "LocA", "NatA", 0),
      HireRow(NaT, "AE", "LocA", "NatA", 5),
      HireRow(<<2024, 3, 1>>, "AE", "LocA", "NatB", 7),
      HireRow(<<2024, 1, 1>>, None, "LocA", "NatA", 4),
      HireRow(<<2024, 4, 1>>, "AE", "LocB", "NatB", 1) }

CacHireRecords ==
    { HireRow(<<2024, 3, 1>>, "AE", "LocA", "NatA", 10),
      HireRow(<<2024, 4, 1>>, "AE", "LocA", "NatA", 4),
      HireRow(<<2024, 3, 1>>, "AE", "LocA", "NatA", 0),
      HireRow(<<2025, 3, 1>>, "AE", "LocA", "NatA", 3) }

DefaultSpend ==
    << SpendRow(<<2023, 1, 1>>, "AE", "NatA", "LocA", 100),
       SpendRow(<<2023, 2, 1>>, "AE", "NatA", "LocA", 60) >>

DefaultHire ==
    << HireRow(<<2023, 2, 1>>, "AE", "LocA", "NatA", 2),
       HireRow(<<2023, 3, 1>>, "AE", "LocA", "NatA", 1) >>

\* l.48: df['nationality_category'].dropna().unique()
nationality_options(d) == {d[i].nationality_category : i \in 1..Len(d)} \ {None}

\* l.49
location_options(d) == {d[i].location_category : i \in 1..Len(d)} \ {None}

\* l.52-53: the values of df['app_month_date']
app_months(d) == {app_month(d[i]) : i \in 1..Len(d)}

\* l.52-54: the slider's default value (min_month, max_month)
full_month_range(d) ==
    <<CHOOSE x \in app_months(d) : \A y \in app_months(d) : Ord(x) <= Ord(y),
      CHOOSE x \in app_months(d) : \A y \in app_months(d) : Ord(x) >= Ord(y)>>

\* l.57
available_countries(d, nat, loc) ==
    {d[i].country : i \in {j \in 1..Len(d) :
        d[j].nationality_category = nat /\ d[j].location_category = loc}} \ {None}

\* the blocks after the sidebar have not run
NotRun ==
    /\ filtered_df = <<>>
    /\ month_wise_brackets = <<>>
    /\ spend_df = <<>>
    /\ hire_df = <<>>
    /\ overall = <<>>
    /\ summary = <<>>
    /\ percentages = <<>>
    /\ drilldown = <<>>
    /\ cac_rows = <<>>
    /\ pc = "filter"

\* the widgets left at their default values, but for the horizon
DefaultSidebar ==
    /\ nationality \in nationality_options(df)
    /\ location \in location_options(df)
    /\ selected_month_range = full_month_range(df)
    /\ countries = available_countries(df, nationality, location)

\* any selection the widgets offer
AnySidebar ==
    /\ nationality \in nationality_options(df)
    /\ location \in location_options(df)
    /\ selected_month_range \in
          {<<lo, hi>> \in app_months(df) \X app_months(df) : Ord(lo) <= Ord(hi)}
    /\ countries \in SUBSET available_countries(df, nationality, location)

\* one segment, applications with every kind of lag, every horizon
InitBrackets ==
    /\ df \in SeqsUpTo(BracketRecords, 1, MaxApps)
    /\ spend_raw = DefaultSpend
    /\ hire_raw = DefaultHire
    /\ DefaultSidebar
    /\ num_months \in MinHorizon..MaxHorizon
    /\ NotRun

\* several segments, every selection of the sidebar
InitSegments ==
    /\ df \in SeqsUpTo(SegmentRecords, 1, MaxApps)
    /\ spend_raw = DefaultSpend
    /\ hire_raw = DefaultHire
    /\ AnySidebar
    /\ num_months = DefaultHorizon
    /\ NotRun

\* spend rows of several segments and months
InitSpend ==
    /\ df = SegmentTable
    /\ spend_raw \in SeqsUpTo(SpendRecords, 0, MaxSpendRows)
    /\ hire_raw = DefaultHire
    /\ nationality \in nationality_options(df)
    /\ location \in location_options(df)
    /\ selected_month_range = full_month_range(df)
    /\ countries \in SUBSET available_countries(df, nationality, location)
    /\ num_months = DefaultHorizon
    /\ NotRun

\* hire rows of several segments and months
InitHires ==
    /\ df = SegmentTable
    /\ spend_raw = << SpendRow(<<2024, 1, 1>>, "AE", "NatA", "LocA", 100),
                      SpendRow(<<2024, 2, 1>>, "LB", "NatA", "LocA", 60) >>
    /\ hire_raw \in SeqsUpTo(HireRecords, 0, MaxHireRows)
    /\ nationality \in nationality_options(df)
    /\ location \in location_options(df)
    /\ selected_month_range = full_month_range(df)
    /\ countries \in SUBSET available_countries(df, nationality, location)
    /\ num_months = DefaultHorizon
    /\ NotRun

\* kernels with weight at several lags, spend over the lookback and around it
InitCAC ==
    /\ df \in KernelTables
    /\ spend_raw \in SeqsUpTo(CacSpendRecords, 0, MaxSpendRows)
    /\ hire_raw \in {<<h>> : h \in CacHireRecords}
    /\ DefaultSidebar
    /\ num_months = DefaultHorizon
    /\ NotRun

Init ==
    \/ InitBrackets
    \/ InitSegments
    \/ InitSpend
    \/ InitHires
    \/ InitCAC

-----------------------------------------------------------------------------
(* The script, block by block                                              *)

\* l.60-66
FilterMain ==
    /\ pc = "filter"
    /\ filtered_df' = filter_main(df, nationality, location, countries,
                                  selected_month_range)
    /\ pc' = "brackets"
    /\ UNCHANGED <<df, spend_raw, hire_raw, nationality, location,
                   selected_month_range, num_months, countries,
                   month_wise_brackets, spend_df, hire_df, overall, summary,
                   percentages, drilldown, cac_rows>>

\* l.84-88
MonthWiseBrackets ==
    /\ pc = "brackets"
    /\ month_wise_brackets' = build_month_wise_brackets(filtered_df)
    /\ pc' = "spend"
    /\ UNCHANGED <<df, spend_raw, hire_raw, nationality, location,
                   selected_month_range, num_months, countries, filtered_df,
                   spend_df, hire_df, overall, summary, percentages, drilldown,
                   cac_rows>>

\* l.106-113
SpendBlock ==
    /\ pc = "spend"
    /\ spend_df' = build_spend_df(spend_raw, nationality, location, countries)
    /\ pc' = "hire"
    /\ UNCHANGED <<df, spend_raw, hire_raw, nationality, location,
                   selected_month_range, num_months, countries, filtered_df,
                   month_wise_brackets, hire_df, overall, summary, percentages,
                   drilldown, cac_rows>>

\* l.132-138
HireBlock ==
    /\ pc = "hire"
    /\ hire_df' = build_hire_df(hire_raw, nationality, location, countries)
    /\ pc' = "tab1"
    /\ UNCHANGED <<df, spend_raw, hire_raw, nationality, location,
                   selected_month_range, num_months, countries, filtered_df,
                   month_wise_brackets, spend_df, overall, summary, percentages,
                   drilldown, cac_rows>>

\* l.143-149 (the box plots of l.151-155 feed no later block)
Tab1 ==
    /\ pc = "tab1"
    /\ overall' = compute_time_to_hire(filtered_df, num_months)
    /\ summary' = format_column(overall')
    /\ pc' = "tab2"
    /\ UNCHANGED <<df, spend_raw, hire_raw, nationality, location,
                   selected_month_range, num_months, countries, filtered_df,
                   month_wise_brackets, spend_df, hire_df, percentages,
                   drilldown, cac_rows>>

\* l.157-166
Tab2 ==
    /\ pc = "tab2"
    /\ percentages' = [m \in Range(month_lookup) |->
                          slice_brackets(month_wise_brackets, m, num_months)]
    /\ drilldown' = [m \in Range(month_lookup) |-> format_column(percentages'[m])]
    /\ pc' = "tab4"
    /\ UNCHANGED <<df, spend_raw, hire_raw, nationality, location,
                   selected_month_range, num_months, countries, filtered_df,
                   month_wise_brackets, spend_df, hire_df, overall, summary,
                   cac_rows>>

\* l.172-194 (tab3, l.168-170, only displays spend_df)
Tab4 ==
    /\ pc = "tab4"
    /\ cac_rows' = build_cac_rows(hire_df, spend_df, month_wise_brackets)
    /\ pc' = "done"
    /\ UNCHANGED <<df, spend_raw, hire_raw, nationality, location,
                   selected_month_range, num_months, countries, filtered_df,
                   month_wise_brackets, spend_df, hire_df, overall, summary,
                   percentages, drilldown>>

Next ==
    \/ FilterMain
    \/ MonthWiseBrackets
    \/ SpendBlock
    \/ HireBlock
    \/ Tab1
    \/ Tab2
    \/ Tab4

Spec == Init /\ [][Next]_vars

-----------------------------------------------------------------------------
(* Vocabulary of the properties                                            *)

One == [num |-> 1, den |-> 1]

InUnit(q) == RatLE(Zero, q) /\ RatLE(q, One)

RECURSIVE RatSumSeq(_)
RatSumSeq(s) == IF s = <<>> THEN Zero ELSE RatAdd(Head(s), RatSumSeq(Tail(s)))

\* whole calendar months from the month of a to the month of h
MonthDiff(a, h) == (h[1] * 12 + h[2]) - (a[1] * 12 + a[2])

\* indices of the rows of d with a hire date
HiredIdx(d) == {i \in 1..Len(d) : d[i].successful_date # NaT}

\* indices of the hired rows of d whose lag is exactly k months
LagIdx(d, k) ==
    {i \in HiredIdx(d) : MonthDiff(d[i].application_date, d[i].successful_date) = k}

\* the single-pass distribution: bucket every pair by its month difference
LagFraction(d, k) ==
    IF HiredIdx(d) = {} THEN Zero
    ELSE Rat(Cardinality(LagIdx(d, k)), Cardinality(HiredIdx(d)))

\* every hire of d falls in the horizon window of its application month
AllInWindow(d, n) ==
    \A i \in HiredIdx(d) :
        MonthDiff(d[i].application_date, d[i].successful_date) \in 0..(n - 1)

\* the rows of filtered_df whose application month has the number mo
Pooled(mo) == SelectSeq(filtered_df, LAMBDA r : r.application_date[2] = mo)

\* the script has run to its end; no block overwrites what an earlier one set
Done == pc = "done"

\* C1: every vector compute_time_to_hire returns has as many entries as the
\* horizon asked for (num_months for the summary, 12 for a kernel row); with
\* at least one hire every entry lies in [0, 1], with none (the empty table
\* included) every entry is 0.
C1_VectorShape ==
    /\ Done =>
        /\ Len(overall) = num_months
        /\ HiredIdx(filtered_df) # {} => \A k \in 1..num_months : InUnit(overall[k])
        /\ HiredIdx(filtered_df) = {} => \A k \in 1..num_months : overall[k] = Zero
    /\ Done =>
        \A mo \in 1..12 :
            LET row == month_wise_brackets[month_lookup[mo]]
            IN  /\ Len(row) = 12
                /\ HiredIdx(Pooled(mo)) # {} => \A k \in 1..12 : InUnit(row[k])
                /\ HiredIdx(Pooled(mo)) = {} => \A k \in 1..12 : row[k] = Zero

\* C1 witness: a summary over two hires with different lags, one entry 1/2
C1_Witness ==
    /\ pc = "done"
    /\ Cardinality(HiredIdx(filtered_df)) = 2
    /\ \E k \in 1..num_months : overall[k] = Rat(1, 2)

\* C2 as stated: the entries sum to at most 1, and to exactly 1 if and only
\* if every hire falls inside the horizon window of its application month.
C2_SumOneIffAllInWindow ==
    Done =>
        /\ RatLE(RatSumSeq(overall), One)
        /\ (RatSumSeq(overall) = One) <=> AllInWindow(filtered_df, num_months)

\* C2 amended: the entries sum to at most 1; with at least one hire the sum
\* is 1 if and only if every hire falls inside the horizon window of its
\* application month; with no hire the sum is 0.
C2_SumAtMostOne ==
    Done =>
        /\ RatLE(RatSumSeq(overall), One)
        /\ HiredIdx(filtered_df) # {} =>
              ((RatSumSeq(overall) = One) <=> AllInWindow(filtered_df, num_months))
        /\ HiredIdx(filtered_df) = {} => RatSumSeq(overall) = Zero

\* C2 witness: two hires, one inside the window and one outside: sum 1/2
C2_Witness ==
    /\ pc = "done"
    /\ Cardinality(HiredIdx(filtered_df)) = 2
    /\ ~AllInWindow(filtered_df, num_months)
    /\ RatSumSeq(overall) = Rat(1, 2)

\* C3: entry k of the result is (hires whose hire month is exactly k months
\* after their application month) / (all rows with a hire date): the
\* cohort-grouped half-open windows give the single-pass month-difference
\* distribution, for the summary and for every kernel row.
C3_EntryIsLagFraction ==
    /\ Done =>
        \A k \in 1..num_months : overall[k] = LagFraction(filtered_df, k - 1)
    /\ Done =>
        \A mo \in 1..12 : \A k \in 1..12 :
            month_wise_brackets[month_lookup[mo]][k] = LagFraction(Pooled(mo), k - 1)

\* C3 witness: two cohorts, a never-hired row and a hire outside the horizon
C3_Witness ==
    /\ pc = "done"
    /\ Cardinality({filtered_df[i].application_date : i \in HiredIdx(filtered_df)}) = 2
    /\ ~AllInWindow(filtered_df, num_months)
    /\ \E k \in 1..num_months : overall[k] = Rat(1, 2)

\* C4: the month-name table has exactly the 12 keys Jan..Dec; a month-name
\* with no application row has an all-zero row; every other row is
\* compute_time_to_hire of the rows of that month-name pooled over all years,
\* every entry over the one denominator of all hires of that month-name.
C4_MonthNameTable ==
    Done =>
        /\ DOMAIN month_wise_brackets = Range(month_lookup)
        /\ Cardinality(DOMAIN month_wise_brackets) = 12
        /\ \A mo \in 1..12 :
              LET row == month_wise_brackets[month_lookup[mo]]
              IN  /\ Pooled(mo) = <<>> => row = [k \in 1..12 |-> Zero]
                  /\ Pooled(mo) # <<>> =>
                        /\ row = compute_time_to_hire(Pooled(mo), 12)
                        /\ \A k \in 1..12 :
                              row[k].num * Cardinality(HiredIdx(Pooled(mo))) =
                                Cardinality(LagIdx(Pooled(mo), k - 1)) * row[k].den

\* C4 witness: two applications of the same month-name in different years,
\* hired at different lags, share one row
C4_Witness ==
    /\ pc = "done"
    /\ \E mo \in 1..12 :
          /\ Cardinality({Pooled(mo)[i].application_date[1] :
                            i \in HiredIdx(Pooled(mo))}) = 2
          /\ \E k \in 1..12 : month_wise_brackets[month_lookup[mo]][k] = Rat(1, 2)
    /\ \E mo \in 1..12 : Pooled(mo) = <<>>

\* C8: the slice to num_months of the horizon-12 row that the drilldown
\* shows for a month-name equals compute_time_to_hire of that month's rows
\* at horizon num_months, entry for entry, and is displayed the same; so is
\* the slice of the horizon-12 result for the whole filtered table.
C8_HorizonTruncation ==
    /\ Done =>
        \A mo \in 1..12 :
            \A direct \in {compute_time_to_hire(Pooled(mo), num_months)} :
                /\ percentages[month_lookup[mo]] = direct
                /\ drilldown[month_lookup[mo]] = format_column(direct)
    /\ Done =>
        SubSeq(compute_time_to_hire(filtered_df, 12), 1, num_months) = overall

\* C8 witness: a month-name with a hire inside the horizon and a hire
\* between the horizon and month 12, so the slice drops a non-zero entry
C8_Witness ==
    /\ pc = "done"
    /\ num_months < 12
    /\ \E mo \in 1..12 :
          /\ \E k \in 1..num_months : percentages[month_lookup[mo]][k] = Rat(1, 2)
          /\ \E k \in (num_months + 1)..12 :
                month_wise_brackets[month_lookup[mo]][k] = Rat(1, 2)

\* a spend or hire row belongs to the selected segment
InSegment(nat, loc, c) == nat = nationality /\ loc = location /\ c \in countries

\* the kernel weight of month number mo at lag i
KernelWeight(mo, i) == month_wise_brackets[month_lookup[mo]][i + 1]

\* the contributions of the rows of spend_df to hire month H, row by row
Contributions(H) ==
    [i \in 1..Len(spend_df) |->
        LET lag == MonthDiff(spend_df[i].spend_month, H)
        IN  IF lag \in 0..11
            THEN RatMulInt(spend_df[i].monthly_spend,
                           KernelWeight(spend_df[i].spend_month[2], lag))
            ELSE Zero]

\* the aggregated spend of the 12 months H - 11 .. H
LookbackSpend(H) ==
    SumSeq([i \in 1..Len(spend_df) |->
        IF MonthDiff(spend_df[i].spend_month, H) \in 0..11
        THEN spend_df[i].monthly_spend ELSE 0])

\* C5: for every hire month H of the CAC output, weighted_spend is the sum
\* over the spend months S with 0 <= H - S <= 11 months of
\* spend(S) * kernel[month-name of S][H - S]; spend of other months, and
\* months without spend, contribute nothing; the rounded cell is its
\* rounding to 2 decimals.
C5_WeightedSpend ==
    Done =>
        \A j \in 1..Len(cac_rows) :
            /\ cac_rows[j].weighted_spend = RatSumSeq(Contributions(cac_rows[j].hire_month))
            /\ cac_rows[j].WeightedSpendAED = <<"AED", Round2(cac_rows[j].weighted_spend)>>

\* C5 witness: a hire month credited with spend of two earlier months
\* through the kernel rows of two month-names at two lags
C5_Witness ==
    /\ pc = "done"
    /\ \E j \in 1..Len(cac_rows) :
          /\ Cardinality({i \in 1..Len(spend_df) :
                Contributions(cac_rows[j].hire_month)[i] # Zero}) = 2
          /\ Cardinality({spend_df[i].spend_month[2] : i \in 1..Len(spend_df)}) = 2

\* C6: a row whose summed hire count is positive has cac = weighted_spend /
\* hires, shown rounded to 2 decimals; a row whose summed hire count is 0
\* has no quotient, shows 'N/A', and is still emitted with its weighted spend.
C6_CacOrNA ==
    Done =>
        /\ \A j \in 1..Len(cac_rows) :
              LET r == cac_rows[j]
              IN  /\ r.TotalHires > 0 =>
                        /\ r.cac # NoCac
                        /\ r.cac.num * r.weighted_spend.den * r.TotalHires =
                              r.weighted_spend.num * r.cac.den
                        /\ r.CACAEDperHire = <<"AED", Round2(r.cac)>>
                  /\ r.TotalHires <= 0 =>
                        /\ r.cac = NoCac
                        /\ r.CACAEDperHire = NA
                        /\ r.WeightedSpendAED = <<"AED", Round2(r.weighted_spend)>>
        /\ \A i \in 1..Len(hire_df) :
              hire_df[i].hire_month # NaT =>
                  \E j \in 1..Len(cac_rows) : cac_rows[j].hire_month = hire_df[i].hire_month

\* C6 witness: a hire month with zero hires and a non-zero weighted spend
C6_Witness ==
    /\ pc = "done"
    /\ \E j \in 1..Len(cac_rows) :
          /\ cac_rows[j].TotalHires = 0
          /\ cac_rows[j].weighted_spend # Zero
          /\ cac_rows[j].CACAEDperHire = NA

\* the rows of a table in another order
Reordered(t) ==
    {[i \in 1..Len(t) |-> t[f[i]]] : f \in Permutations(1..Len(t))}

\* what the script derives from each table.  The CAC loop reads the
\* application table only through month_wise_brackets and the spend table
\* only through spend_df (l.181-183)
KernelFrom(d) ==
    build_month_wise_brackets(
        filter_main(d, nationality, location, countries, selected_month_range))
SpendFrom(sp) == build_spend_df(sp, nationality, location, countries)
CacFrom(h) ==
    build_cac_rows(build_hire_df(h, nationality, location, countries),
                   spend_df, month_wise_brackets)

\* indices of the hire rows of the segment with a hire month
SegmentHireIdx ==
    {i \in 1..Len(hire_raw) :
        /\ InSegment(hire_raw[i].nationality_category,
                     hire_raw[i].location_category, hire_raw[i].country)
        /\ hire_raw[i].hire_month # NaT}

RECURSIVE SumHires(_)
SumHires(I) ==
    IF I = {} THEN 0
    ELSE LET i == CHOOSE x \in I : TRUE
         IN  hire_raw[i].hires + SumHires(I \ {i})

\* C7: the CAC table has exactly one row per distinct non-null hire month of
\* the segment's hire rows, with the hire counts of the rows of that month
\* summed; the rows are in strictly ascending hire-month order; reordering
\* the rows of the hire table leaves the CAC table as it is, and reordering
\* the rows of the spend or application table leaves what the CAC loop reads
\* of them (spend_df, month_wise_brackets) as it is.
C7_OneRowPerMonthSorted ==
    Done =>
        /\ {cac_rows[j].HireMonth : j \in 1..Len(cac_rows)} =
              {<<hire_raw[i].hire_month[1], hire_raw[i].hire_month[2]>> :
                  i \in SegmentHireIdx}
        /\ \A j, k \in 1..Len(cac_rows) :
              j < k =>
                 \/ cac_rows[j].HireMonth[1] < cac_rows[k].HireMonth[1]
                 \/ /\ cac_rows[j].HireMonth[1] = cac_rows[k].HireMonth[1]
                    /\ cac_rows[j].HireMonth[2] < cac_rows[k].HireMonth[2]
        /\ \A j \in 1..Len(cac_rows) :
              cac_rows[j].TotalHires =
                 SumHires({i \in SegmentHireIdx :
                    <<hire_raw[i].hire_month[1], hire_raw[i].hire_month[2]>> =
                        cac_rows[j].HireMonth})
        /\ \A h \in Reordered(hire_raw) : CacFrom(h) = cac_rows
        /\ \A sp \in Reordered(spend_raw) : SpendFrom(sp) = spend_df
        /\ \A d \in Reordered(df) : KernelFrom(d) = month_wise_brackets

\* C7 witness: two hire rows of the segment given in descending month order
C7_Witness ==
    /\ pc = "done"
    /\ Len(cac_rows) = 2
    /\ Len(hire_raw) = 2
    /\ SegmentHireIdx = {1, 2}
    /\ Ord(hire_raw[1].hire_month) > Ord(hire_raw[2].hire_month)

\* indices of the spend rows of the segment whose month is m
SegmentSpendIdx(m) ==
    {i \in 1..Len(spend_raw) :
        /\ InSegment(spend_raw[i].nationality_category,
                     spend_raw[i].location_category, spend_raw[i].country_name)
        /\ spend_raw[i].spend_month # NaT
        /\ spend_raw[i].spend_month[1] = m[1]
        /\ spend_raw[i].spend_month[2] = m[2]}

RECURSIVE SumSpend(_)
SumSpend(I) ==
    IF I = {} THEN 0
    ELSE LET i == CHOOSE x \in I : TRUE
         IN  spend_raw[i].monthly_spend + SumSpend(I \ {i})

\* the months the CAC loop asks for, and the months of the raw spend rows
QueriedMonths ==
    {spend_month_at(hire_df[j].hire_month, i) :
        j \in {x \in 1..Len(hire_df) : hire_df[x].hire_month # NaT}, i \in 0..11}
    \cup {<<spend_raw[i].spend_month[1], spend_raw[i].spend_month[2], 1>> :
            i \in {x \in 1..Len(spend_raw) : spend_raw[x].spend_month # NaT}}

\* C9: for every month the spend the CAC loop reads is the sum of the
\* amounts of exactly the spend rows of that month in the selected segment;
\* spend_df has at most one row per month; a month without a matching row
\* reads as 0.
C9_SpendAggregation ==
    Done =>
        /\ \A m \in QueriedMonths :
              spend_at(spend_df, m) = SumSpend(SegmentSpendIdx(m))
        /\ \A i, j \in 1..Len(spend_df) :
              spend_df[i].spend_month = spend_df[j].spend_month => i = j
        /\ \A i \in 1..Len(spend_df) :
              /\ spend_df[i].spend_month # NaT
              /\ SegmentSpendIdx(spend_df[i].spend_month) # {}

\* C9 witness: two rows of one month merged, with rows of other segments
\* present and a queried month that has no row
C9_Witness ==
    /\ pc = "done"
    /\ \E m \in QueriedMonths : Cardinality(SegmentSpendIdx(m)) = 2
    /\ \E m \in QueriedMonths : SegmentSpendIdx(m) = {} /\ spend_at(spend_df, m) = 0

\* C10: when no spend amount is negative, every hire month's weighted_spend
\* is at least 0 and at most the aggregated spend of the 12 months
\* H - 11 .. H; without spend in that lookback it is 0.
C10_WeightedSpendBounded ==
    Done =>
        ((\A i \in 1..Len(spend_raw) : spend_raw[i].monthly_spend >= 0) =>
            \A j \in 1..Len(cac_rows) :
                /\ RatLE(Zero, cac_rows[j].weighted_spend)
                /\ RatLE(cac_rows[j].weighted_spend,
                         Rat(LookbackSpend(cac_rows[j].hire_month), 1))
                /\ LookbackSpend(cac_rows[j].hire_month) = 0 =>
                      cac_rows[j].weighted_spend = Zero)

\* C10 witness: a weighted spend strictly between 0 and the lookback spend
C10_Witness ==
    /\ pc = "done"
    /\ \A i \in 1..Len(spend_raw) : spend_raw[i].monthly_spend >= 0
    /\ \E j \in 1..Len(cac_rows) :
          /\ cac_rows[j].weighted_spend # Zero
          /\ cac_rows[j].weighted_spend # Rat(LookbackSpend(cac_rows[j].hire_month), 1)

=============================================================================
